---------------------------- MODULE Spec2Model ----------------------------
(***************************************************************************)
(* Model of the maintenance scripts under src/frontend:                    *)
(*   batch_fix_inputs.py, comprehensive_fix.py, final_comprehensive_fix.py *)
(*   (the input-tag patchers), enhanced_scan.py, fix_form_fields.py (the   *)
(*   scanners) and fix_console.py (the console-call rewriter).             *)
(*                                                                         *)
(* Text is a sequence of one-character strings, so that substring tests,   *)
(* regular expressions, slicing and splicing are computed character by     *)
(* character as the Python code computes them.                             *)
(***************************************************************************)
EXTENDS Integers, Sequences, FiniteSets, TLC

\* ------------------------------------------------------------------------
\* Bounds of the model
\* ------------------------------------------------------------------------
MaxLines == 3

MaxTypeLines == 2

MaxConsoleLines == 3

MaxIdLines == 2

MaxPipelineLines == 2

MaxFiles == 2

\* ------------------------------------------------------------------------
\* Characters
\* ------------------------------------------------------------------------
LowerLetters ==
  {"a","b","c","d","e","f","g","h","i","j","k","l","m",
   "n","o","p","q","r","s","t","u","v","w","x","y","z"}

UpperLetters ==
  {"A","B","C","D","E","F","G","H","I","J","K","L","M",
   "N","O","P","Q","R","S","T","U","V","W","X","Y","Z"}

Digits == {"0","1","2","3","4","5","6","7","8","9"}

\* \s of the re module, restricted to the characters of the model
Whitespace == {" ", "\t", "\n"}

\* \w of the re module
WordChars == LowerLetters \cup UpperLetters \cup Digits \cup {"_"}

Quotes == {"\"", "'"}

\* str.lower() on one character
LowerChar(c) ==
  CASE c = "A" -> "a" [] c = "B" -> "b" [] c = "C" -> "c" [] c = "D" -> "d"
    [] c = "E" -> "e" [] c = "F" -> "f" [] c = "G" -> "g" [] c = "H" -> "h"
    [] c = "I" -> "i" [] c = "J" -> "j" [] c = "K" -> "k" [] c = "L" -> "l"
    [] c = "M" -> "m" [] c = "N" -> "n" [] c = "O" -> "o" [] c = "P" -> "p"
    [] c = "Q" -> "q" [] c = "R" -> "r" [] c = "S" -> "s" [] c = "T" -> "t"
    [] c = "U" -> "u" [] c = "V" -> "v" [] c = "W" -> "w" [] c = "X" -> "x"
    [] c = "Y" -> "y" [] c = "Z" -> "z" [] OTHER -> c

\* ------------------------------------------------------------------------
\* Python string primitives
\* ------------------------------------------------------------------------
MinOf(S) == CHOOSE x \in S : \A y \in S : x <= y

MaxOf(S) == CHOOSE x \in S : \A y \in S : x >= y

\* s[a:b] with 0-based Python bounds 0 <= a <= b <= len(s)
Slice(s, a, b) == SubSeq(s, a + 1, b)

\* p occurs in s starting at the 1-based position i
OccursAt(s, p, i) ==
  /\ i >= 1
  /\ i + Len(p) - 1 <= Len(s)
  /\ \A j \in 1..Len(p) : s[i + j - 1] = p[j]

\* p in s
Contains(s, p) == \E i \in 1..(Len(s) - Len(p) + 1) : OccursAt(s, p, i)

\* 1-based positions at which p occurs in s
Occurrences(s, p) == {i \in 1..(Len(s) - Len(p) + 1) : OccursAt(s, p, i)}

\* s.startswith(p)
StartsWith(s, p) == OccursAt(s, p, 1)

\* s.lower()
Lower(s) == [i \in 1..Len(s) |-> LowerChar(s[i])]

\* The leftmost of a set of positions, none if the set is empty
FirstOr(S, none) == IF S = {} THEN none ELSE MinOf(S)

\* first position >= i of s that holds no whitespace (Len(s) + 1 if none): \s*
SkipWs(s, i) == FirstOr({k \in i..Len(s) : s[k] \notin Whitespace}, Len(s) + 1)

\* s without what lies before the first and after the last position of keep
Between(s, keep) ==
  IF keep = {} THEN <<>> ELSE SubSeq(s, MinOf(keep), MaxOf(keep))

\* s.strip()
Strip(s) == Between(s, {k \in 1..Len(s) : s[k] \notin Whitespace})

\* s.strip('-')
StripHyphens(s) == Between(s, {k \in 1..Len(s) : s[k] # "-"})

\* the elements of s at the positions of keep, in order
Pick(s, keep) ==
  [k \in DOMAIN SelectSeq([i \in 1..Len(s) |-> i], LAMBDA i : i \in keep) |->
     s[SelectSeq([i \in 1..Len(s) |-> i], LAMBDA i : i \in keep)[k]]]

\* the pieces of s between the separator positions seps (in order)
SplitAt(s, seps) ==
  [k \in 1..(Len(seps) + 1) |->
     SubSeq(s, IF k = 1 THEN 1 ELSE seps[k - 1] + 1,
               IF k > Len(seps) THEN Len(s) ELSE seps[k] - 1)]

\* s.split(sep) for a one-character separator
Split(s, sep) ==
  SplitAt(s, Pick([i \in 1..Len(s) |-> i], {i \in 1..Len(s) : s[i] = sep}))

\* sep.join(parts)
RECURSIVE Join(_, _)
Join(parts, sep) ==
  IF Len(parts) = 0 THEN <<>>
  ELSE IF Len(parts) = 1 THEN parts[1]
  ELSE parts[1] \o sep \o Join(Tail(parts), sep)

\* the lines of s that end at the newline positions ends, then the rest
LinesAt(s, ends) ==
  [k \in 1..(Len(ends) + (IF ends # <<>> /\ ends[Len(ends)] = Len(s) THEN 0
                          ELSE IF Len(s) = 0 THEN 0 ELSE 1)) |->
     SubSeq(s, IF k = 1 THEN 1 ELSE ends[k - 1] + 1,
               IF k > Len(ends) THEN Len(s) ELSE ends[k])]

\* f.readlines(): the lines of the text, each keeping its newline
readlines(s) ==
  LinesAt(s, Pick([i \in 1..Len(s) |-> i], {i \in 1..Len(s) : s[i] = "\n"}))

\* s.replace(old, new): non-overlapping occurrences, left to right;
\* re.sub of a literal pattern does the same
RECURSIVE ReplaceFrom(_, _, _, _)
ReplaceAt(s, old, new, i, k) ==
  IF k = 0 THEN SubSeq(s, i, Len(s))
  ELSE SubSeq(s, i, k - 1) \o new \o ReplaceFrom(s, old, new, k + Len(old))

ReplaceFrom(s, old, new, i) ==
  ReplaceAt(s, old, new, i, FirstOr({k \in i..Len(s) : OccursAt(s, old, k)}, 0))

Replace(s, old, new) == ReplaceFrom(s, old, new, 1)

\* re.sub(r'[^...]', '', s): keep the characters of the class
KeepChars(s, class) == SelectSeq(s, LAMBDA c : c \in class)

\* re.sub(r'[^...]', '-', s): every character outside the class becomes a hyphen
HyphenateOthers(s, class) ==
  [i \in 1..Len(s) |-> IF s[i] \in class THEN s[i] ELSE "-"]

\* re.sub(r'-+', '-', s): of every run of hyphens the first one stays
CollapseHyphens(s) ==
  Pick(s, {i \in 1..Len(s) : ~(s[i] = "-" /\ i > 1 /\ s[i - 1] = "-")})

\* re.sub(r'[^...]+', '-', s): every run of characters outside the class
\* becomes one hyphen
HyphenateRuns(s, class) ==
  Pick(HyphenateOthers(s, class),
       {i \in 1..Len(s) : s[i] \in class \/ i = 1 \/ s[i - 1] \in class})

\* s[:n]
Take(s, n) == IF Len(s) <= n THEN s ELSE SubSeq(s, 1, n)

DigitChar(d) ==
  CASE d = 0 -> "0" [] d = 1 -> "1" [] d = 2 -> "2" [] d = 3 -> "3"
    [] d = 4 -> "4" [] d = 5 -> "5" [] d = 6 -> "6" [] d = 7 -> "7"
    [] d = 8 -> "8" [] d = 9 -> "9"

\* str(n) for a natural number
RECURSIVE Str(_)
Str(n) == IF n < 10 THEN <<DigitChar(n)>> ELSE Str(n \div 10) \o <<DigitChar(n % 10)>>

\* s.endswith(p)
EndsWith(s, p) == Len(p) <= Len(s) /\ OccursAt(s, p, Len(s) - Len(p) + 1)

\* ------------------------------------------------------------------------
\* Regular expressions of the scripts
\* ------------------------------------------------------------------------
\* tag[j] is the '=' of an attribute
EqAt(tag, j) == j <= Len(tag) /\ tag[j] = "="

\* re.search(r'\b<word>\s*=', tag) is not None
\* (\b before a word character: start of text, or a non-word character)
HasAttr(tag, word) ==
  \E i \in Occurrences(tag, word) :
    /\ (i = 1 \/ tag[i - 1] \notin WordChars)
    /\ EqAt(tag, SkipWs(tag, i + Len(word)))

\* A match: [ok, value (group 1), end (Python match.end())]
NoMatch == [ok |-> FALSE, value |-> <<>>, end |-> 0]

\* The value between an opening delimiter at k and the first closing
\* delimiter q after it: ["']([^"']+)["'] or \{([^}]+)\}
Delimited(tag, k, q, openers) ==
  IF k <= Len(tag) /\ tag[k] \in openers /\ q > k + 1
  THEN [ok |-> TRUE, value |-> SubSeq(tag, k + 1, q - 1), end |-> q]
  ELSE NoMatch

ValueFrom(tag, k, openers, closers) ==
  Delimited(tag, k, FirstOr({q \in (k + 1)..Len(tag) : tag[q] \in closers}, 0), openers)

\* Match of  \s*=\s*<opener>(<not closer>+)<closer>  from position j on
ValueAfter(tag, j, openers, closers) ==
  IF EqAt(tag, SkipWs(tag, j))
  THEN ValueFrom(tag, SkipWs(tag, SkipWs(tag, j) + 1), openers, closers)
  ELSE NoMatch

\* Match of  <word>\s*=\s*["']([^"']+)["']  anchored at position i
QuotedAt(tag, word, i) ==
  IF i = 0 THEN NoMatch ELSE ValueAfter(tag, i + Len(word), Quotes, Quotes)

\* re.search(r'<word>\s*=\s*["\']([^"\']+)["\']', tag): leftmost match;
\* boundary = TRUE puts \b in front of the word
SearchQuoted(tag, word, boundary) ==
  QuotedAt(tag, word,
    FirstOr({i \in Occurrences(tag, word) :
               /\ (boundary => (i = 1 \/ tag[i - 1] \notin WordChars))
               /\ ValueAfter(tag, i + Len(word), Quotes, Quotes).ok}, 0))

\* Match of  <word>\s*=\s*\{([^}]+)\}  for the word of words that occurs at i
BracedAt(tag, words, i) ==
  IF i = 0 THEN NoMatch
  ELSE ValueAfter(tag, i + Len(CHOOSE w \in words : OccursAt(tag, w, i)), {"{"}, {"}"})

\* re.search(r'bind:(?:w1|w2|...)\s*=\s*\{([^}]+)\}', tag): leftmost match
SearchBind(tag, words) ==
  BracedAt(tag, words,
    FirstOr({i \in 1..Len(tag) :
               \E w \in words :
                 OccursAt(tag, w, i) /\ ValueAfter(tag, i + Len(w), {"{"}, {"}"}).ok}, 0))

\* match.end() of '<input' at position i followed by \s*, -1 if i = 0
InputMatchEnd(tag, i) == IF i = 0 THEN -1 ELSE SkipWs(tag, i + 6) - 1

\* re.search(r'<input\s+', tag): match.end() of the leftmost match, -1 if none
InputWsEnd(tag) ==
  InputMatchEnd(tag, FirstOr({i \in Occurrences(tag, <<"<","i","n","p","u","t">>) :
                                i + 6 <= Len(tag) /\ tag[i + 6] \in Whitespace}, 0))

\* re.search(r'<input\s*', tag): match.end() of the leftmost match, -1 if none
InputEnd(tag) == InputMatchEnd(tag, FirstOr(Occurrences(tag, <<"<","i","n","p","u","t">>), 0))

\* tag[:pos] + attrs + tag[pos:]
Splice(tag, pos, attrs) == Slice(tag, 0, pos) \o attrs \o Slice(tag, pos, Len(tag))


\* group(1) of a match, the default if there is none
GroupOr(m, default) == IF m.ok THEN m.value ELSE default

\* The type of a tag: group 1 of type\s*=\s*["']([^"']+)["'], 'text' if none
InputType(tag) == GroupOr(SearchQuoted(tag, <<"t","y","p","e">>, FALSE), <<"t","e","x","t">>)

\* ------------------------------------------------------------------------
\* Tag reassembly (the inner while loop shared by every scan loop)
\* ------------------------------------------------------------------------
\* batch_fix_inputs.fix_file, enhanced_scan.check_input_violations:
\*   while '>' not in input_tag and i < len(lines) - 1:
\*       i += 1; input_tag += '\n' + lines[i]
\* i is the 0-based index of the last line taken so far
RECURSIVE CollectTag(_, _, _)
CollectTag(lines, i, input_tag) ==
  IF ~Contains(input_tag, <<">">>) /\ i < Len(lines) - 1
  THEN CollectTag(lines, i + 1, input_tag \o <<"\n">> \o lines[i + 2])
  ELSE [i |-> i, tag |-> input_tag]

RECURSIVE CollectLines_stops_early(_, _, _)
CollectLines_stops_early(lines, i, input_lines) ==
  IF ~Contains(Join(input_lines, <<>>), <<">">>) /\ i < Len(lines) - 2
  THEN CollectLines_stops_early(lines, i + 1, Append(input_lines, lines[i + 2]))
  ELSE [i |-> i, tag |-> Join(input_lines, <<"\n">>)]

\* comprehensive_fix.fix_input_in_content, final_comprehensive_fix.process_file:
\*   while '>' not in ''.join(input_lines) and i < len(lines) - 1:
\*       i += 1; input_lines.append(lines[i])
\*   full_input = '\n'.join(input_lines)
RECURSIVE CollectLines(_, _, _)
CollectLines(lines, i, input_lines) ==
  IF ~Contains(Join(input_lines, <<>>), <<">">>) /\ i < Len(lines) - 1
  THEN CollectLines(lines, i + 1, Append(input_lines, lines[i + 2]))
  ELSE [i |-> i, tag |-> Join(input_lines, <<"\n">>)]

\* fix_form_fields.find_inputs_without_id_name (lines from readlines keep
\* their newline):
\*   while '>' not in input_tag and i < len(lines) - 1:
\*       i += 1; input_tag += lines[i]
RECURSIVE CollectRaw(_, _, _)
CollectRaw(lines, i, input_tag) ==
  IF ~Contains(input_tag, <<">">>) /\ i < Len(lines) - 1
  THEN CollectRaw(lines, i + 1, input_tag \o lines[i + 2])
  ELSE [i |-> i, tag |-> input_tag]

\* One entry of the record a scan loop leaves of a tag it reassembled:
\* 1-based first and last line, the reassembled text, the text after the
\* patch (the same text when nothing was added) and the synthesized id
TagEntry(start, end, text, out, id) ==
  [start |-> start, end |-> end, text |-> text, out |-> out, id |-> id]

\* The state of a scan loop before its first iteration: 0-based line index,
\* the lines (patched in place or rebuilt), the count of fixed tags, and the
\* record of the tags reassembled and of the lines visited
LoopStart(lines) ==
  [i |-> 0, lines |-> lines, fixed_count |-> 0, tags |-> <<>>, visited |-> <<>>]

\* The loop state after an iteration that began on line st.i, ended on line
\* last (0-based), left the lines as given and fixed n tags
LoopStep(st, last, lines, n, entries) ==
  [i |-> last + 1, lines |-> lines, fixed_count |-> st.fixed_count + n,
   tags |-> st.tags \o entries, visited |-> Append(st.visited, st.i + 1)]

\* What a run of a script on the file leaves behind
Outcome(content, count, w, new_content, st) ==
  [count |-> count, wrote |-> w, content |-> IF w THEN new_content ELSE content,
   tags |-> st.tags, visited |-> st.visited]

\* ------------------------------------------------------------------------
\* batch_fix_inputs.py
\* ------------------------------------------------------------------------
\* id_name = re.sub(r'[^a-z0-9-]', '', id_name.lower()); collapse hyphens;
\* strip('-')
batch_clean_id(id_name) ==
  StripHyphens(CollapseHyphens(KeepChars(Lower(id_name),
                 LowerLetters \cup Digits \cup {"-"})))

\* The if/elif chain of generate_id_from_context
batch_id_name(input_tag, line_num, input_type, placeholder_match, bind_match, class_name) ==
  IF bind_match.ok THEN
    <<"i","n","p","u","t","-">> \o Replace(Replace(Replace(Strip(bind_match.value),
                          <<".">>, <<"-">>), <<"[">>, <<"-">>), <<"]">>, <<>>)
  ELSE IF placeholder_match.ok THEN
    <<"i","n","p","u","t","-">> \o Take(Replace(Replace(Lower(placeholder_match.value),
                          <<" ">>, <<"-">>), <<".",".",".">>, <<>>), 30)
  ELSE IF Contains(Lower(class_name), <<"s","e","a","r","c","h">>)
          \/ Contains(Lower(input_tag), <<"s","e","a","r","c","h">>) THEN
    <<"s","e","a","r","c","h","-","i","n","p","u","t","-">> \o Str(line_num)
  ELSE IF Contains(input_type, <<"c","h","e","c","k","b","o","x">>) THEN <<"c","h","e","c","k","b","o","x","-">> \o Str(line_num)
  ELSE IF Contains(input_type, <<"r","a","d","i","o">>) THEN <<"r","a","d","i","o","-">> \o Str(line_num)
  ELSE IF Contains(input_type, <<"d","a","t","e">>) THEN <<"d","a","t","e","-","i","n","p","u","t","-">> \o Str(line_num)
  ELSE input_type \o <<"-","i","n","p","u","t","-">> \o Str(line_num)

generate_id_from_context(input_tag, line_num, file_context) ==
  batch_clean_id(
    batch_id_name(input_tag, line_num,
      InputType(input_tag),
      SearchQuoted(input_tag, <<"p","l","a","c","e","h","o","l","d","e","r">>, FALSE),
      SearchBind(input_tag, {<<"b","i","n","d",":","v","a","l","u","e">>}),
      GroupOr(SearchQuoted(input_tag, <<"c","l","a","s","s">>, FALSE), <<>>)))

\* attrs_to_add of fix_input_tag
batch_attrs(has_id, has_name, id_name, name_attr) ==
  (IF has_id THEN <<>> ELSE <<<<"i","d","=","\"">> \o id_name \o <<"\"">>>>)
  \o (IF has_name THEN <<>> ELSE <<<<"n","a","m","e","=","\"">> \o name_attr \o <<"\"">>>>)

\* The insertion of fix_input_tag at match.end()
batch_insert(input_tag, insert_pos, attrs_to_add) ==
  IF insert_pos >= 0
  THEN Splice(input_tag, insert_pos, Join(attrs_to_add, <<" ">>) \o <<" ">>)
  ELSE input_tag

batch_fix_input_tag(input_tag, id_name, name_attr) ==
  IF HasAttr(input_tag, <<"i","d">>) /\ HasAttr(input_tag, <<"n","a","m","e">>) THEN input_tag
  ELSE batch_insert(input_tag,
         IF InputWsEnd(input_tag) >= 0 THEN InputWsEnd(input_tag) ELSE InputEnd(input_tag),
         batch_attrs(HasAttr(input_tag, <<"i","d">>), HasAttr(input_tag, <<"n","a","m","e">>),
                     id_name, name_attr))

\* for j, tag_line in enumerate(tag_lines): overwrite new_lines[start_line + j]
\* when it exists, append otherwise
RECURSIVE batch_place(_, _, _, _)
batch_place(new_lines, tag_lines, start_line, j) ==
  IF j >= Len(tag_lines) THEN new_lines
  ELSE IF start_line + j < Len(new_lines)
       THEN batch_place([new_lines EXCEPT ![start_line + j + 1] = tag_lines[j + 1]],
                        tag_lines, start_line, j + 1)
       ELSE batch_place(Append(new_lines, tag_lines[j + 1]), tag_lines, start_line, j + 1)

\* The line on which fix_file decides whether a tag starts here
batch_is_marker(line) == Contains(line, <<"<","i","n","p","u","t">>) /\ ~Contains(line, <<"h","i","d","d","e","n">>)

\* A tag that fix_file leaves alone: only the marker line goes to new_lines
\* (st.lines is new_lines; c is the reassembled tag)
batch_keep(st, line, c) ==
  LoopStep(st, c.i, Append(st.lines, line), 0,
           <<TagEntry(st.i + 1, c.i + 1, c.tag, c.tag, <<>>)>>)

\* The 'if fixed_tag != input_tag' branch: the lines of the fixed tag go to
\* new_lines and i = start_line + len(tag_lines) - 1
batch_fixed(st, line, c, id_name, fixed_tag) ==
  IF fixed_tag # c.tag
  THEN LoopStep(st, st.i + Len(Split(fixed_tag, "\n")) - 1,
                batch_place(st.lines, Split(fixed_tag, "\n"), st.i, 0), 1,
                <<TagEntry(st.i + 1, c.i + 1, c.tag, fixed_tag, id_name)>>)
  ELSE batch_keep(st, line, c)

\* The body of 'if not has_id and not has_name'
batch_patch(st, line, c, content, id_name) ==
  batch_fixed(st, line, c, id_name, batch_fix_input_tag(c.tag, id_name, id_name))

\* One iteration of the while loop of fix_file on a marker line
batch_tag(st, line, c, content) ==
  IF ~HasAttr(c.tag, <<"i","d">>) /\ ~HasAttr(c.tag, <<"n","a","m","e">>)
  THEN batch_patch(st, line, c, content,
                   generate_id_from_context(c.tag, st.i + 1, content))
  ELSE batch_keep(st, line, c)

\* One iteration of the while loop of fix_file
batch_step(lines, content, st, line) ==
  IF batch_is_marker(line)
  THEN batch_tag(st, line, CollectTag(lines, st.i, line), content)
  ELSE LoopStep(st, st.i, Append(st.lines, line), 0, <<>>)

\* The outer while loop of fix_file; st.i is the 0-based line index and
\* st.lines is new_lines
RECURSIVE batch_loop(_, _, _)
batch_loop(lines, content, st) ==
  IF st.i >= Len(lines) THEN st
  ELSE batch_loop(lines, content, batch_step(lines, content, st, lines[st.i + 1]))

batch_should_write_always(fixed_count, dry_run) == fixed_count > 0

\* if fixed_count > 0 and not dry_run: write
batch_should_write(fixed_count, dry_run) == fixed_count > 0 /\ ~dry_run

\* What fix_file leaves once the loop has ended in the state st
batch_end(content, dry_run, st) ==
  Outcome(content, st.fixed_count, batch_should_write(st.fixed_count, dry_run),
          Join(st.lines, <<"\n">>), st)

\* fix_file(file_path, dry_run) on a file holding content:
\* the returned count, whether the file is written, and its content afterwards
batch_fix_file(content, dry_run) ==
  batch_end(content, dry_run,
            batch_loop(Split(content, "\n"), content, LoopStart(<<>>)))


\* ------------------------------------------------------------------------
\* comprehensive_fix.py
\* ------------------------------------------------------------------------
\* The last element of a sequence
Last(parts) == parts[Len(parts)]

\* Path(file_path).name: the last component of the path
PathName(file_path) == Last(Split(file_path, "/"))

\* name without its last suffix; d is the position of its last dot (0: none)
DropSuffix(name, d) ==
  IF d <= 1 \/ d = Len(name) THEN name ELSE SubSeq(name, 1, d - 1)

\* Path(file_path).stem
PathStem(file_path) ==
  DropSuffix(PathName(file_path),
             MaxOf({0} \cup {k \in 1..Len(PathName(file_path)) :
                               PathName(file_path)[k] = "."}))

\* The name of the directory that holds the last of the components
ParentOf(parts) ==
  IF Len(parts) < 2 \/ parts[Len(parts) - 1] = <<".">> THEN <<>>
  ELSE parts[Len(parts) - 1]

\* Path(file_path).parent.name
PathParentName(file_path) == ParentOf(Split(file_path, "/"))

ContextDirs == {<<"b","l","o","g">>, <<"c","o","u","r","s","e","s">>, <<"p","r","o","d","u","c","t","s">>, <<"v","i","d","e","o","s">>, <<"b","o","a","r","d","s">>}

GenericNames == {<<"p","a","g","e">>, <<"l","a","y","o","u","t">>, <<"i","n","d","e","x">>}

Alnum == LowerLetters \cup UpperLetters \cup Digits

\* 'Add context from file/directory'
smart_context(file_name, parent_dir) ==
  IF parent_dir \in ContextDirs THEN <<parent_dir>>
  ELSE IF file_name \notin GenericNames THEN <<Replace(file_name, <<"+">>, <<>>)>>
  ELSE <<>>

\* The search/filter/select keyword of the else branch
smart_keyword(input_tag, class_name) ==
  IF Contains(Lower(class_name), <<"s","e","a","r","c","h">>) \/ Contains(Lower(input_tag), <<"s","e","a","r","c","h">>)
  THEN <<<<"s","e","a","r","c","h">>>>
  ELSE IF Contains(Lower(class_name), <<"f","i","l","t","e","r">>) THEN <<<<"f","i","l","t","e","r">>>>
  ELSE IF Contains(Lower(class_name), <<"s","e","l","e","c","t">>) THEN <<<<"s","e","l","e","c","t">>>>
  ELSE <<>>

\* clean_ph appended to the context when it is not empty
smart_placeholder(context, clean_ph) ==
  IF clean_ph # <<>> THEN Append(context, clean_ph) ELSE context

\* The id_parts list before the 'if not id_parts' fallback
smart_id_parts(input_tag, input_type, placeholder_match, bind_var, class_name, context) ==
  IF bind_var # <<>> THEN
    Append(context, StripHyphens(CollapseHyphens(HyphenateOthers(bind_var, Alnum))))
  ELSE IF placeholder_match.ok THEN
    smart_placeholder(context,
      StripHyphens(HyphenateRuns(Take(Lower(placeholder_match.value), 30),
                                 LowerLetters \cup Digits)))
  ELSE context \o smart_keyword(input_tag, class_name) \o <<input_type>>

\* 'Build final ID'
smart_final_id(id_parts, input_type, line_num) ==
  Take(CollapseHyphens(Lower(Join(
         IF id_parts = <<>> THEN <<input_type, Str(line_num)>> ELSE id_parts,
         <<"-">>))), 50)

generate_smart_id(input_tag, file_path, line_num) ==
  smart_final_id(
    smart_id_parts(input_tag,
      InputType(input_tag),
      SearchQuoted(input_tag, <<"p","l","a","c","e","h","o","l","d","e","r">>, FALSE),
      Strip(GroupOr(SearchBind(input_tag, {<<"b","i","n","d",":","v","a","l","u","e">>, <<"b","i","n","d",":","c","h","e","c","k","e","d">>}), <<>>)),
      GroupOr(SearchQuoted(input_tag, <<"c","l","a","s","s">>, FALSE), <<>>),
      smart_context(PathStem(file_path), PathParentName(file_path))),
    InputType(input_tag), line_num)

\* for j, fixed_line in enumerate(fixed_lines):
\*     if input_start + j < len(lines): lines[input_start + j] = fixed_line
RECURSIVE replace_in_lines(_, _, _, _)
replace_in_lines(lines, fixed_lines, input_start, j) ==
  IF j >= Len(fixed_lines) THEN lines
  ELSE IF input_start + j < Len(lines)
       THEN replace_in_lines([lines EXCEPT ![input_start + j + 1] = fixed_lines[j + 1]],
                             fixed_lines, input_start, j + 1)
       ELSE replace_in_lines(lines, fixed_lines, input_start, j + 1)

\* A reassembled tag that an in-place loop leaves as it is
tag_kept(st, c) ==
  LoopStep(st, c.i, st.lines, 0, <<TagEntry(st.i + 1, c.i + 1, c.tag, c.tag, <<>>)>>)

\* A reassembled tag that an in-place loop replaces by fixed_input
tag_replaced(st, c, fixed_input, id_val) ==
  LoopStep(st, c.i, replace_in_lines(st.lines, Split(fixed_input, "\n"), st.i, 0), 1,
           <<TagEntry(st.i + 1, c.i + 1, c.tag, fixed_input, id_val)>>)

\* id and name inserted right after '<input' and its whitespace, where pos is
\* the end of that match
comprehensive_insert(st, c, pos, id_val) ==
  IF pos >= 0
  THEN tag_replaced(st, c,
         Splice(c.tag, pos, <<"i","d","=","\"">> \o id_val \o <<"\""," ","n","a","m","e","=","\"">> \o id_val \o <<"\""," ">>), id_val)
  ELSE tag_kept(st, c)

\* One iteration of the while loop of fix_input_in_content on a marker line
comprehensive_tag(st, c, file_path) ==
  IF Contains(c.tag, <<"h","i","d","d","e","n">>) THEN tag_kept(st, c)
  ELSE IF ~HasAttr(c.tag, <<"i","d">>) /\ ~HasAttr(c.tag, <<"n","a","m","e">>)
       THEN comprehensive_insert(st, c, InputWsEnd(c.tag),
                                 generate_smart_id(c.tag, file_path, st.i + 1))
       ELSE tag_kept(st, c)

\* One iteration of the while loop of fix_input_in_content
comprehensive_step(file_path, st, line) ==
  IF Contains(line, <<"<","i","n","p","u","t">>)
  THEN comprehensive_tag(st, CollectLines(st.lines, st.i, <<line>>), file_path)
  ELSE LoopStep(st, st.i, st.lines, 0, <<>>)

\* The outer while loop of fix_input_in_content; st.lines is patched in place
RECURSIVE comprehensive_loop(_, _)
comprehensive_loop(file_path, st) ==
  IF st.i >= Len(st.lines) THEN st
  ELSE comprehensive_loop(file_path, comprehensive_step(file_path, st, st.lines[st.i + 1]))

\* fix_input_in_content(content, file_path): the state the loop ends in;
\* the function returns ('\n'.join(st.lines), st.fixed_count)
fix_input_in_content(content, file_path) ==
  comprehensive_loop(file_path, LoopStart(Split(content, "\n")))

\* if count > 0: write
comprehensive_should_write(count) == count > 0

\* What process_file leaves once fix_input_in_content has returned
comprehensive_end(content, st) ==
  Outcome(content, st.fixed_count, comprehensive_should_write(st.fixed_count),
          Join(st.lines, <<"\n">>), st)

\* process_file(file_path) on a readable file holding content
comprehensive_process_file(content, file_path) ==
  comprehensive_end(content, fix_input_in_content(content, file_path))

\* ------------------------------------------------------------------------
\* final_comprehensive_fix.py
\* ------------------------------------------------------------------------
\* AUTOCOMPLETE_MAP['text'], in the iteration order of the dict
AutocompleteText ==
  << <<<<"u","s","e","r","n","a","m","e">>, <<"u","s","e","r","n","a","m","e">>>>, <<<<"n","a","m","e">>, <<"n","a","m","e">>>>, <<<<"f","i","r","s","t">>, <<"g","i","v","e","n","-","n","a","m","e">>>>,
     <<<<"l","a","s","t">>, <<"f","a","m","i","l","y","-","n","a","m","e">>>>, <<<<"p","h","o","n","e">>, <<"t","e","l">>>>, <<<<"a","d","d","r","e","s","s">>, <<"s","t","r","e","e","t","-","a","d","d","r","e","s","s">>>>,
     <<<<"c","i","t","y">>, <<"a","d","d","r","e","s","s","-","l","e","v","e","l","2">>>>, <<<<"s","t","a","t","e">>, <<"a","d","d","r","e","s","s","-","l","e","v","e","l","1">>>>,
     <<<<"z","i","p">>, <<"p","o","s","t","a","l","-","c","o","d","e">>>>, <<<<"c","o","u","n","t","r","y">>, <<"c","o","u","n","t","r","y","-","n","a","m","e">>>> >>

\* The value of the first key of the table found in id_lower, '' if none
text_autocomplete(k) == IF k = 0 THEN <<>> ELSE AutocompleteText[k][2]

get_autocomplete_value_new_only(input_tag, input_type, id_val) ==
  IF input_type = <<"p","a","s","s","w","o","r","d">> THEN
    IF Contains(Lower(input_tag), <<"n","e","w">>) THEN <<"n","e","w","-","p","a","s","s","w","o","r","d">> ELSE <<"c","u","r","r","e","n","t","-","p","a","s","s","w","o","r","d">>
  ELSE IF input_type = <<"e","m","a","i","l">> THEN <<"e","m","a","i","l">>
  ELSE IF input_type = <<"t","e","l">> THEN <<"t","e","l">>
  ELSE IF input_type = <<"t","e","x","t">> THEN
    text_autocomplete(FirstOr({k \in 1..Len(AutocompleteText) :
                                 Contains(Lower(id_val), AutocompleteText[k][1])}, 0))
  ELSE <<>>

\* get_autocomplete_value(input_tag, input_type, id_val)
get_autocomplete_value(input_tag, input_type, id_val) ==
  IF input_type = <<"p","a","s","s","w","o","r","d">> THEN
    IF Contains(Lower(input_tag), <<"n","e","w">>) \/ Contains(Lower(input_tag), <<"c","o","n","f","i","r","m">>)
    THEN <<"n","e","w","-","p","a","s","s","w","o","r","d">> ELSE <<"c","u","r","r","e","n","t","-","p","a","s","s","w","o","r","d">>
  ELSE IF input_type = <<"e","m","a","i","l">> THEN <<"e","m","a","i","l">>
  ELSE IF input_type = <<"t","e","l">> THEN <<"t","e","l">>
  ELSE IF input_type = <<"t","e","x","t">> THEN
    text_autocomplete(FirstOr({k \in 1..Len(AutocompleteText) :
                                 Contains(Lower(id_val), AutocompleteText[k][1])}, 0))
  ELSE <<>>

SensitiveTypes == {<<"p","a","s","s","w","o","r","d">>, <<"e","m","a","i","l">>, <<"t","e","l">>}

\* 'Add name if missing (use id value or generate one)'
final_add_name(has_name, id_val) ==
  IF ~has_name /\ id_val # <<>> THEN <<<<"n","a","m","e","=","\"">> \o id_val \o <<"\"">>>> ELSE <<>>

\* 'Add autocomplete for sensitive fields'
final_add_autocomplete(has_autocomplete, input_type, autocomplete_val) ==
  IF ~has_autocomplete /\ input_type \in SensitiveTypes /\ autocomplete_val # <<>>
  THEN <<<<"a","u","t","o","c","o","m","p","l","e","t","e","=","\"">> \o autocomplete_val \o <<"\"">>>> ELSE <<>>

\* 'Find where to insert (after id attribute if it exists, otherwise after
\* <input)'
final_insert(input_tag, has_id, attrs_to_add, pos) ==
  IF attrs_to_add = <<>> THEN input_tag
  ELSE IF has_id.ok THEN Splice(input_tag, has_id.end, <<" ">> \o Join(attrs_to_add, <<" ">>))
  ELSE IF pos >= 0 THEN Splice(input_tag, pos, Join(attrs_to_add, <<" ">>) \o <<" ">>)
  ELSE input_tag

\* fix_input_tag once the attributes of the tag have been extracted
final_fix_extracted(input_tag, has_id, has_name, has_autocomplete, input_type) ==
  final_insert(input_tag, has_id,
    final_add_name(has_name, GroupOr(has_id, <<>>))
      \o final_add_autocomplete(has_autocomplete, input_type,
           get_autocomplete_value(input_tag, input_type, GroupOr(has_id, <<>>))),
    InputWsEnd(input_tag))

final_fix_input_tag(input_tag, file_path, line_num) ==
  IF Contains(input_tag, <<"h","i","d","d","e","n">>) THEN input_tag
  ELSE final_fix_extracted(input_tag,
         SearchQuoted(input_tag, <<"i","d">>, TRUE),
         HasAttr(input_tag, <<"n","a","m","e">>),
         HasAttr(input_tag, <<"a","u","t","o","c","o","m","p","l","e","t","e">>),
         InputType(input_tag))

\* 'if fixed_input != full_input'
final_tag(st, c, fixed_input) ==
  IF fixed_input # c.tag THEN tag_replaced(st, c, fixed_input, <<>>) ELSE tag_kept(st, c)

\* One iteration of the while loop of process_file
final_step(file_path, st, line, c) ==
  IF Contains(line, <<"<","i","n","p","u","t">>)
  THEN final_tag(st, c, final_fix_input_tag(c.tag, file_path, st.i + 1))
  ELSE LoopStep(st, st.i, st.lines, 0, <<>>)

\* The outer while loop of process_file; st.lines is patched in place
RECURSIVE final_loop(_, _)
final_loop(file_path, st) ==
  IF st.i >= Len(st.lines) THEN st
  ELSE final_loop(file_path,
         final_step(file_path, st, st.lines[st.i + 1],
                    CollectLines(st.lines, st.i, <<st.lines[st.i + 1]>>)))

\* if fixed_count > 0: write
final_should_write(fixed_count) == fixed_count > 0

\* What process_file leaves once the loop has ended in the state st
final_end(content, st) ==
  Outcome(content, st.fixed_count, final_should_write(st.fixed_count),
          Join(st.lines, <<"\n">>), st)

\* process_file(file_path) on a readable file holding content
final_process_file(content, file_path) ==
  final_end(content, final_loop(file_path, LoopStart(Split(content, "\n"))))

\* ------------------------------------------------------------------------
\* enhanced_scan.py
\* ------------------------------------------------------------------------
\* input_tag[:100] + '...' if len(input_tag) > 100 else input_tag
Preview(input_tag) ==
  IF Len(input_tag) > 100 THEN Take(input_tag, 100) \o <<".",".",".">> ELSE input_tag

ScanTypes == {<<"p","a","s","s","w","o","r","d">>, <<"e","m","a","i","l">>, <<"t","e","l">>, <<"u","s","e","r","n","a","m","e">>}

\* 'Check for missing id/name'
scan_id_issues(has_id, has_name) ==
  IF ~has_id /\ ~has_name THEN <<<<"m","i","s","s","i","n","g","_","i","d","_","a","n","d","_","n","a","m","e">>>>
  ELSE IF ~has_id THEN <<<<"m","i","s","s","i","n","g","_","i","d">>>>
  ELSE IF ~has_name THEN <<<<"m","i","s","s","i","n","g","_","n","a","m","e">>>>
  ELSE <<>>

\* 'Check for missing autocomplete on sensitive fields'
scan_autocomplete_issues(has_autocomplete, input_type) ==
  IF input_type \in ScanTypes /\ ~has_autocomplete
  THEN <<<<"m","i","s","s","i","n","g","_","a","u","t","o","c","o","m","p","l","e","t","e","_">> \o input_type>> ELSE <<>>

\* The issues list of one tag
scan_issues(input_tag) ==
  scan_id_issues(HasAttr(input_tag, <<"i","d">>), HasAttr(input_tag, <<"n","a","m","e">>))
    \o scan_autocomplete_issues(HasAttr(input_tag, <<"a","u","t","o","c","o","m","p","l","e","t","e">>), InputType(input_tag))

\* The violations a tag adds to the list
scan_violation(st, c, issues) ==
  IF ~Contains(c.tag, <<"h","i","d","d","e","n">>) /\ issues # <<>>
  THEN <<[line |-> st.i + 1, tag |-> Preview(c.tag), issues |-> issues]>>
  ELSE <<>>

\* One iteration of the while loop of check_input_violations;
\* st.lines is the violations list
scan_step(st, line, c) ==
  IF Contains(line, <<"<","i","n","p","u","t">>)
  THEN LoopStep(st, c.i, st.lines \o scan_violation(st, c, scan_issues(c.tag)), 0,
                <<TagEntry(st.i + 1, c.i + 1, c.tag, c.tag, <<>>)>>)
  ELSE LoopStep(st, st.i, st.lines, 0, <<>>)

\* The while loop of check_input_violations
RECURSIVE scan_loop(_, _)
scan_loop(lines, st) ==
  IF st.i >= Len(lines) THEN st
  ELSE scan_loop(lines,
         scan_step(st, lines[st.i + 1], CollectTag(lines, st.i, lines[st.i + 1])))

\* check_input_violations(file_path) on a file holding content: the state
\* the loop ends in, whose lines field is the returned violations list
check_input_violations(content) ==
  scan_loop(Split(content, "\n"), LoopStart(<<>>))

\* ------------------------------------------------------------------------
\* fix_form_fields.py
\* ------------------------------------------------------------------------
\* The violations a tag adds to the list
find_violation(st, c) ==
  IF ~HasAttr(c.tag, <<"i","d">>) /\ ~HasAttr(c.tag, <<"n","a","m","e">>) /\ ~Contains(c.tag, <<"h","i","d","d","e","n">>)
  THEN <<[line |-> st.i + 1, tag |-> Strip(c.tag)]>>
  ELSE <<>>

\* One iteration of the while loop of find_inputs_without_id_name;
\* st.lines is the violations list
find_step(st, line, c) ==
  IF Contains(line, <<"<","i","n","p","u","t">>)
  THEN LoopStep(st, c.i, st.lines \o find_violation(st, c), 0,
                <<TagEntry(st.i + 1, c.i + 1, c.tag, c.tag, <<>>)>>)
  ELSE LoopStep(st, st.i, st.lines, 0, <<>>)

\* The while loop of find_inputs_without_id_name
RECURSIVE find_loop(_, _)
find_loop(lines, st) ==
  IF st.i >= Len(lines) THEN st
  ELSE find_loop(lines,
         find_step(st, lines[st.i + 1], CollectRaw(lines, st.i, lines[st.i + 1])))

\* find_inputs_without_id_name(file_path) on a file holding content: the
\* state the loop ends in, whose lines field is the returned violations list
find_inputs_without_id_name(content) ==
  find_loop(readlines(content), LoopStart(<<>>))

\* ------------------------------------------------------------------------
\* fix_console.py
\* ------------------------------------------------------------------------
LoggerImport == <<"i","m","p","o","r","t"," ","{"," ","l","o","g","g","e","r"," ","}"," ","f","r","o","m"," ","'","$","l","i","b","/","u","t","i","l","s","/","l","o","g","g","e","r","'",";">>

ConsoleMethods == {<<"d","e","b","u","g">>, <<"e","r","r","o","r">>, <<"w","a","r","n">>, <<"i","n","f","o">>, <<"l","o","g">>}

\* re.search(r'console\.(debug|error|warn|info|log)\(', content)
has_console_call(content) ==
  \E m \in ConsoleMethods : Contains(content, <<"c","o","n","s","o","l","e",".">> \o m \o <<"(">>)

has_logger_import(content) ==
  \/ Contains(content, <<"f","r","o","m"," ","'","$","l","i","b","/","u","t","i","l","s","/","l","o","g","g","e","r","'">>)
  \/ Contains(content, <<"f","r","o","m"," ","\"","$","l","i","b","/","u","t","i","l","s","/","l","o","g","g","e","r","\"">>)

\* 'Find last import line': the 0-based index of the last line that, stripped,
\* starts with 'import ', -1 if there is none
last_import_idx(lines) ==
  MaxOf({i \in 1..Len(lines) : StartsWith(Strip(lines[i]), <<"i","m","p","o","r","t"," ">>)} \cup {0}) - 1

insert_logger_import_before(lines, idx) ==
  IF idx >= 0
  THEN SubSeq(lines, 1, idx) \o <<LoggerImport>> \o SubSeq(lines, idx + 1, Len(lines))
  ELSE <<LoggerImport>> \o lines

\* lines.insert(last_import_idx + 1, ...) or lines.insert(0, ...)
insert_logger_import(lines, idx) ==
  IF idx >= 0
  THEN SubSeq(lines, 1, idx + 1) \o <<LoggerImport>> \o SubSeq(lines, idx + 2, Len(lines))
  ELSE <<LoggerImport>> \o lines

add_logger_import(content) ==
  Join(insert_logger_import(Split(content, "\n"),
                            last_import_idx(Split(content, "\n"))), <<"\n">>)

replace_console_statements_keep_log(content) ==
  Replace(Replace(Replace(Replace(content,
    <<"c","o","n","s","o","l","e",".","d","e","b","u","g","(">>, <<"l","o","g","g","e","r",".","d","e","b","u","g","(">>),
    <<"c","o","n","s","o","l","e",".","e","r","r","o","r","(">>, <<"l","o","g","g","e","r",".","e","r","r","o","r","(">>),
    <<"c","o","n","s","o","l","e",".","w","a","r","n","(">>, <<"l","o","g","g","e","r",".","w","a","r","n","(">>),
    <<"c","o","n","s","o","l","e",".","i","n","f","o","(">>, <<"l","o","g","g","e","r",".","i","n","f","o","(">>)

\* the five re.sub calls, in the order of the code
replace_console_statements(content) ==
  Replace(Replace(Replace(Replace(Replace(content,
    <<"c","o","n","s","o","l","e",".","d","e","b","u","g","(">>, <<"l","o","g","g","e","r",".","d","e","b","u","g","(">>),
    <<"c","o","n","s","o","l","e",".","e","r","r","o","r","(">>, <<"l","o","g","g","e","r",".","e","r","r","o","r","(">>),
    <<"c","o","n","s","o","l","e",".","w","a","r","n","(">>, <<"l","o","g","g","e","r",".","w","a","r","n","(">>),
    <<"c","o","n","s","o","l","e",".","i","n","f","o","(">>, <<"l","o","g","g","e","r",".","i","n","f","o","(">>),
    <<"c","o","n","s","o","l","e",".","l","o","g","(">>, <<"l","o","g","g","e","r",".","i","n","f","o","(">>)

\* 'Add logger import if needed'
with_logger_import(content) ==
  IF ~has_logger_import(content) THEN add_logger_import(content) ELSE content

\* fix_file(filepath) on a readable and writable file holding content: the
\* returned truth value (True is 1, False is 0), whether the file is
\* written, and its content afterwards
console_fix_file(content) ==
  IF ~has_console_call(content)
  THEN Outcome(content, 0, FALSE, content, LoopStart(<<>>))
  ELSE Outcome(content, 1, TRUE,
               replace_console_statements(with_logger_import(content)),
               LoopStart(<<>>))

\* ------------------------------------------------------------------------
\* The loops over the files (__main__, scan_and_fix_directory, main)
\* ------------------------------------------------------------------------
\* A file of the list or tree: kind is "ok", "unreadable" (open for reading
\* or the decoding raises), "readonly" (open for writing raises) or "missing"
FileOf(kind, content) == [kind |-> kind, content |-> content]

\* What the per-file function does on the file f when, on a readable and
\* writable file of that content, its outcome is r: whether an exception is
\* raised in it, and the content of the file afterwards
FileRun(f, r) ==
  [raised |-> f.kind = "unreadable" \/ (f.kind = "readonly" /\ r.wrote),
   count |-> r.count,
   content |-> IF f.kind = "ok" THEN r.content ELSE f.content]

\* The run of a script before its loop over the files
StartRun(script, dry_run, files) ==
  [script |-> script, dry_run |-> dry_run, files |-> files, pos |-> 0,
   total_files |-> 0, total_fixed |-> 0, reported |-> {},
   summary |-> FALSE, crashed |-> FALSE]

\* No script is iterating over a list of files
NoRun == StartRun("none", FALSE, <<>>)

\* The loop goes on to the next file, the current one left holding content
NextFile(r, content, files_add, fixed_add, reported_add) ==
  [r EXCEPT !.files[r.pos + 1].content = content,
            !.pos = r.pos + 1,
            !.total_files = r.total_files + files_add,
            !.total_fixed = r.total_fixed + fixed_add,
            !.reported = r.reported \cup reported_add]

\* The exception leaves the loop and the script: traceback, no summary
Uncaught(r) == [r EXCEPT !.crashed = TRUE]

\* batch_fix_inputs.__main__: count = fix_file(file_path, dry_run) is not
\* inside any try block
batch_main_file(r, f, x) ==
  IF x.raised THEN Uncaught(r) ELSE NextFile(r, x.content, 0, x.count, {})

\* One iteration of 'for file_path in priority_files'
batch_main_step(r, f) ==
  IF f.kind # "missing"
  THEN batch_main_file(r, f, FileRun(f, batch_fix_file(f.content, r.dry_run)))
  ELSE NextFile(r, f.content, 0, 0, {})

\* One iteration of the loops of scan_and_fix_directory and of main, x
\* being the run of process_file or fix_file on the file: the exception is
\* caught inside it, reported, and 0 or False is returned
caught_main_file(r, f, x) ==
  IF x.raised THEN NextFile(r, x.content, 0, 0, {r.pos + 1})
  ELSE NextFile(r, x.content, IF x.count > 0 THEN 1 ELSE 0, x.count, {})

\* ------------------------------------------------------------------------
\* State
\* ------------------------------------------------------------------------
VARIABLES
  disk,        \* content of the file the scripts work on
  path,        \* its path
  op,          \* the script that ran last on it ("init" before the first run)
  ret,         \* what that run returned: the fixed count of a patcher,
               \* the number of violations of a scanner
  wrote,       \* whether that run wrote the file
  tags,        \* the tags that run reassembled, in order (TagEntry)
  visited,     \* the 1-based lines at which its outer loop looked for a marker
  run          \* the run of a script over a list of files (StartRun)

vars == <<disk, path, op, ret, wrote, tags, visited, run>>

\* Lines of the files given to the patchers and scanners: tags on one line,
\* tags spread over several lines, hidden inputs, compliant inputs
StructLines ==
  { <<"<","i","n","p","u","t"," ",">">>,
    <<"<","i","n","p","u","t">>,
    <<" ","i","d","=","\"","a","\""," ","n","a","m","e","=","\"","a","\"",">">>,
    <<" ","c","l","a","s","s","=","\"","x","\"">>,
    <<" ","t","y","p","e","=","\"","h","i","d","d","e","n","\"",">">>,
    <<"<","i","n","p","u","t"," ","t","y","p","e","=","\"","h","i","d","d","e","n","\"">> }

Paths == { <<".","/","s","r","c","/","r","o","u","t","e","s","/","l","o","g","i","n","/","+","p","a","g","e",".","s","v","e","l","t","e">> }

\* Every file of 1..max lines drawn from the set L
FilesOf(L, max) ==
  {Join(ls, <<"\n">>) : ls \in UNION {[1..n -> L] : n \in 1..max}}

Init ==
  /\ disk \in FilesOf(StructLines, MaxLines)
  /\ path \in Paths
  /\ op = "init"
  /\ ret = 0
  /\ wrote = FALSE
  /\ tags = <<>>
  /\ visited = <<>>
  /\ run = NoRun

\* The effect of the run of a patcher with the outcome r
Patch(name, r) ==
  /\ disk' = r.content
  /\ op' = name
  /\ ret' = r.count
  /\ wrote' = r.wrote
  /\ tags' = r.tags
  /\ visited' = r.visited
  /\ UNCHANGED <<path, run>>

\* The effect of the run of a scanner whose loop ended in the state st
Scan(name, st) ==
  /\ op' = name
  /\ ret' = Len(st.lines)
  /\ wrote' = FALSE
  /\ tags' = st.tags
  /\ visited' = st.visited
  /\ UNCHANGED <<disk, path, run>>

\* python3 batch_fix_inputs.py [--dry-run], for the file
BatchFixFile(dry_run) ==
  Patch(IF dry_run THEN "batch_dry" ELSE "batch", batch_fix_file(disk, dry_run))

\* comprehensive_fix.process_file for the file
ComprehensiveProcessFile ==
  Patch("comprehensive", comprehensive_process_file(disk, path))

\* final_comprehensive_fix.process_file for the file
FinalProcessFile == Patch("final", final_process_file(disk, path))

\* enhanced_scan.check_input_violations for the file
EnhancedScan == Scan("scan", check_input_violations(disk))

\* fix_form_fields.find_inputs_without_id_name for the file
FindInputs == Scan("find", find_inputs_without_id_name(disk))

Next ==
  \/ \E dry_run \in BOOLEAN : BatchFixFile(dry_run)
  \/ ComprehensiveProcessFile
  \/ FinalProcessFile
  \/ EnhancedScan
  \/ FindInputs

Spec == Init /\ [][Next]_vars

\* Lines of the files given to the scripts to exercise the input types:
\* password, email and tel fields with and without an id or an
\* autocomplete attribute, on one line and on two
TypeLines ==
  { <<"<","i","n","p","u","t"," ","t","y","p","e","=","\"","p","a","s","s","w","o","r","d","\""," ","b","i","n","d",":","v","a","l","u","e","=","{","c","o","n","f","i","r","m","P","a","s","s","w","o","r","d","}",">">>,
    <<"<","i","n","p","u","t"," ","t","y","p","e","=","\"","p","a","s","s","w","o","r","d","\""," ","b","i","n","d",":","v","a","l","u","e","=","{","p","a","s","s","w","o","r","d","}",">">>,
    <<"<","i","n","p","u","t"," ","i","d","=","\"","e","\""," ","t","y","p","e","=","\"","e","m","a","i","l","\"",">">>,
    <<"<","i","n","p","u","t"," ","t","y","p","e","=","\"","p","a","s","s","w","o","r","d","\""," ","p","l","a","c","e","h","o","l","d","e","r","=","\"","N","e","w","\"",">">>,
    <<"<","i","n","p","u","t"," ","t","y","p","e","=","\"","e","m","a","i","l","\""," ","a","u","t","o","c","o","m","p","l","e","t","e","=","\"","o","f","f","\"",">">>,
    <<"<","i","n","p","u","t">>,
    <<" ","t","y","p","e","=","\"","t","e","l","\"",">">> }

InitTypes ==
  /\ disk \in FilesOf(TypeLines, MaxTypeLines)
  /\ path \in Paths
  /\ op = "init"
  /\ ret = 0
  /\ wrote = FALSE
  /\ tags = <<>>
  /\ visited = <<>>
  /\ run = NoRun

SpecTypes == InitTypes /\ [][Next]_vars

\* Lines of the files given to the scripts to exercise the synthesis of ids:
\* bound expressions, a placeholder, a class keyword, nothing but the type,
\* with and without whitespace after the marker
IdLines ==
  { <<"<","i","n","p","u","t",">">>,
    <<"<","i","n","p","u","t"," ","b","i","n","d",":","v","a","l","u","e","=","{","_","}",">">>,
    <<"<","i","n","p","u","t"," ","b","i","n","d",":","v","a","l","u","e","=","{","u","s","e","r",".","N","a","m","e","}",">">>,
    <<"<","i","n","p","u","t"," ","p","l","a","c","e","h","o","l","d","e","r","=","\"","E","n","t","e","r"," ","y","o","u","r"," ","s","h","i","p","p","i","n","g"," ","a","d","d","r","e","s","s","\"",">">>,
    <<"<","i","n","p","u","t"," ","c","l","a","s","s","=","\"","s","e","a","r","c","h","\"",">">>,
    <<"<","i","n","p","u","t"," ",">">> }

\* Paths of these files: route files named the SvelteKit way, one of them in
\* a directory of the context list, and library files
IdPaths ==
  { <<".","/","s","r","c","/","r","o","u","t","e","s","/","l","o","g","i","n","/","+","p","a","g","e",".","s","v","e","l","t","e">>,
    <<".","/","s","r","c","/","r","o","u","t","e","s","/","b","l","o","g","/","+","l","a","y","o","u","t",".","s","v","e","l","t","e">>,
    <<".","/","s","r","c","/","l","i","b","/","S","u","b","s","c","r","i","p","t","i","o","n","P","a","y","m","e","n","t","M","e","t","h","o","d","F","o","r","m",".","s","v","e","l","t","e">>,
    <<".","/","s","r","c","/","l","i","b","/","i","n","d","e","x",".","s","v","e","l","t","e">> }

InitIds ==
  /\ disk \in FilesOf(IdLines, MaxIdLines)
  /\ path \in IdPaths
  /\ op = "init"
  /\ ret = 0
  /\ wrote = FALSE
  /\ tags = <<>>
  /\ visited = <<>>
  /\ run = NoRun

SpecIds == InitIds /\ [][Next]_vars

\* Lines of the files given to the announced pipeline: inputs without id and
\* name with and without whitespace after the marker, an input with a name
\* only, with an id only, a password input, a hidden input, inputs with
\* attributes whose names end in -id and -autocomplete
PipelineLines ==
  { <<"<","i","n","p","u","t"," ","d","a","t","a","-","i","d","=","\"","x","\"",">">>,
    <<"<","i","n","p","u","t"," ","i","d","=","\"","m","\""," ","n","a","m","e","=","\"","m","\""," ","t","y","p","e","=","\"","e","m","a","i","l","\""," ","a","r","i","a","-","a","u","t","o","c","o","m","p","l","e","t","e","=","\"","l","i","s","t","\"",">">>,
    <<"<","i","n","p","u","t"," ",">">>,
    <<"<","i","n","p","u","t",">">>,
    <<"<","i","n","p","u","t"," ","n","a","m","e","=","\"","t","\"",">">>,
    <<"<","i","n","p","u","t"," ","i","d","=","\"","e","\""," ","t","y","p","e","=","\"","e","m","a","i","l","\"",">">>,
    <<"<","i","n","p","u","t"," ","t","y","p","e","=","\"","p","a","s","s","w","o","r","d","\"",">">>,
    <<"<","i","n","p","u","t"," ","t","y","p","e","=","\"","h","i","d","d","e","n","\"",">">> }

InitPipeline ==
  /\ disk \in FilesOf(PipelineLines, MaxPipelineLines)
  /\ path \in Paths
  /\ op = "init"
  /\ ret = 0
  /\ wrote = FALSE
  /\ tags = <<>>
  /\ visited = <<>>
  /\ run = NoRun

\* The scripts run in the order in which they announce their result:
\* comprehensive_fix, then final_comprehensive_fix, then enhanced_scan
PipelineComprehensive == op = "init" /\ ComprehensiveProcessFile

PipelineFinal == op = "comprehensive" /\ FinalProcessFile

PipelineScan == op = "final" /\ EnhancedScan

NextPipeline ==
  \/ PipelineComprehensive
  \/ PipelineFinal
  \/ PipelineScan

SpecPipeline == InitPipeline /\ [][NextPipeline]_vars

\* Lines of the files given to the console-call rewriter: imports at the
\* start of a line and indented, the logger import, console calls of every
\* method, one and several on a line
ConsoleLines ==
  { <<"i","m","p","o","r","t"," ","a",";">>,
    <<" "," ","i","m","p","o","r","t"," ","b",";">>,
    <<"c","o","n","s","o","l","e",".","l","o","g","(","1",")",";">>,
    <<"c","o","n","s","o","l","e",".","w","a","r","n","(","2",")",";"," ","c","o","n","s","o","l","e",".","l","o","g","(","3",")",";">>,
    <<"c","o","n","s","o","l","e",".","d","e","b","u","g","(","4",")",";"," ","c","o","n","s","o","l","e",".","e","r","r","o","r","(","5",")",";"," ","c","o","n","s","o","l","e",".","i","n","f","o","(","6",")",";">>,
    LoggerImport,
    <<"x"," ","="," ","1",";">> }

InitConsole ==
  /\ disk \in FilesOf(ConsoleLines, MaxConsoleLines)
  /\ path \in Paths
  /\ op = "init"
  /\ ret = 0
  /\ wrote = FALSE
  /\ tags = <<>>
  /\ visited = <<>>
  /\ run = NoRun

\* fix_console.fix_file for the file
FixConsole == Patch("console", console_fix_file(disk))

NextConsole == FixConsole

SpecConsole == InitConsole /\ [][NextConsole]_vars

\* The scripts that loop over files
DriverScripts == {"batch", "comprehensive", "final", "console"}

DriverContents == { <<"<","i","n","p","u","t"," ",">">>, <<"c","o","n","s","o","l","e",".","l","o","g","(","1",")",";">> }

DriverFiles ==
  {FileOf(kind, content) :
     kind \in {"ok", "unreadable", "readonly", "missing"}, content \in DriverContents}

\* os.walk and the lint output list existing files only; the fixed list of
\* batch_fix_inputs may name files that do not exist
ListedBy(script, files) ==
  script = "batch" \/ \A k \in 1..Len(files) : files[k].kind # "missing"

InitDriver ==
  /\ disk = <<>>
  /\ path \in Paths
  /\ op = "init"
  /\ ret = 0
  /\ wrote = FALSE
  /\ tags = <<>>
  /\ visited = <<>>
  /\ \E script \in DriverScripts, dry_run \in BOOLEAN :
       \E files \in UNION {[1..n -> DriverFiles] : n \in 1..MaxFiles} :
         /\ dry_run => script = "batch"
         /\ ListedBy(script, files)
         /\ run = StartRun(script, dry_run, files)

\* The loop of the script has a next file to process
Looping(script) ==
  run.script = script /\ ~run.crashed /\ run.pos < Len(run.files)

Iterate(r) == run' = r /\ UNCHANGED <<disk, path, op, ret, wrote, tags, visited>>

\* batch_fix_inputs.__main__, one iteration
BatchMain ==
  Looping("batch") /\ Iterate(batch_main_step(run, run.files[run.pos + 1]))

\* comprehensive_fix.scan_and_fix_directory, one iteration
ComprehensiveMain ==
  /\ Looping("comprehensive")
  /\ Iterate(caught_main_file(run, run.files[run.pos + 1],
       FileRun(run.files[run.pos + 1],
               comprehensive_process_file(run.files[run.pos + 1].content, path))))

\* final_comprehensive_fix.scan_and_fix_directory, one iteration
FinalMain ==
  /\ Looping("final")
  /\ Iterate(caught_main_file(run, run.files[run.pos + 1],
       FileRun(run.files[run.pos + 1],
               final_process_file(run.files[run.pos + 1].content, path))))

\* fix_console.main, one iteration
ConsoleMain ==
  /\ Looping("console")
  /\ Iterate(caught_main_file(run, run.files[run.pos + 1],
       FileRun(run.files[run.pos + 1],
               console_fix_file(run.files[run.pos + 1].content))))

\* The prints that follow the loop
PrintSummary ==
  /\ run.script \in DriverScripts
  /\ ~run.crashed
  /\ run.pos = Len(run.files)
  /\ ~run.summary
  /\ Iterate([run EXCEPT !.summary = TRUE])

NextDriver ==
  \/ BatchMain
  \/ ComprehensiveMain
  \/ FinalMain
  \/ ConsoleMain
  \/ PrintSummary

SpecDriver == InitDriver /\ [][NextDriver]_vars

\* ------------------------------------------------------------------------
\* Properties of the patchers and scanners
\* ------------------------------------------------------------------------
PatcherOps == {"batch", "batch_dry", "comprehensive", "final"}

WritingOps == {"batch", "comprehensive", "final"}

TagsOf(seq) == {seq[k] : k \in 1..Len(seq)}

\* The tag entries of the last run that were patched
Patched(seq) == {t \in TagsOf(seq) : t.out # t.text}

\* C1: running a patcher a second time on the output of its first run fixes
\* nothing (count 0), writes nothing and leaves the content as it is.
C1_RoundTrip ==
  [][(op \in WritingOps /\ op' = op) => (ret' = 0 /\ ~wrote' /\ disk' = disk)]_vars

\* C2: a tag that already has both an id and a name attribute is found with
\* its text unchanged in the content a patcher leaves on disk.
C2_CompliantUnchanged ==
  op \in WritingOps =>
    \A t \in TagsOf(tags) :
      (HasAttr(t.text, <<"i","d">>) /\ HasAttr(t.text, <<"n","a","m","e">>)) => Contains(disk, t.text)

\* C3: no patcher adds an attribute to a reassembled tag whose text contains
\* 'hidden'.
C3_HiddenUntouched ==
  op \in PatcherOps =>
    \A t \in TagsOf(tags) : Contains(t.text, <<"h","i","d","d","e","n">>) => t.out = t.text

\* The last line of the tag that starts on line k: the first line from k on
\* after which the accumulated buffer contains '>', the last line if none
CloseLine(lines, k) ==
  LET closing == {m \in k..Len(lines) : Contains(lines[m], <<">">>)}
  IN  IF closing = {} THEN Len(lines) ELSE MinOf(closing)

\* C4: every scan loop treats the lines from a marker line k to its closing
\* line as one tag that starts on line k, and resumes right after that tag.
C4_Reassembly ==
  [][op' # "init" =>
       LET lines == Split(disk, "\n")
       IN  \A j \in 1..Len(visited') :
             LET k == visited'[j]
                 m == CloseLine(lines, k)
                 text == Join(SubSeq(lines, k, m), <<"\n">>)
             IN  Contains(lines[k], <<"<","i","n","p","u","t">>) =>
                   /\ \E t \in TagsOf(tags') :
                        /\ t.start = k
                        /\ t.end = m
                        /\ t.text \in {text, text \o <<"\n">>}
                   /\ IF j < Len(visited')
                      THEN visited'[j + 1] = m + 1
                      ELSE m = Len(lines)]_vars

\* The autocomplete value the resolver is to choose for a tag of a sensitive type
ExpectedAutocomplete(tag) ==
  IF InputType(tag) = <<"p","a","s","s","w","o","r","d">>
  THEN IF Contains(Lower(tag), <<"n","e","w">>) \/ Contains(Lower(tag), <<"c","o","n","f","i","r","m">>)
       THEN <<"n","e","w","-","p","a","s","s","w","o","r","d">> ELSE <<"c","u","r","r","e","n","t","-","p","a","s","s","w","o","r","d">>
  ELSE InputType(tag)

\* A tag final_comprehensive_fix is to give an autocomplete attribute
NeedsAutocomplete(tag) ==
  /\ ~Contains(tag, <<"h","i","d","d","e","n">>)
  /\ ~HasAttr(tag, <<"a","u","t","o","c","o","m","p","l","e","t","e">>)
  /\ InputType(tag) \in SensitiveTypes

\* C5: after final_comprehensive_fix, a tag of type password, email or tel
\* that was not hidden and had no autocomplete attribute carries exactly one,
\* with the value new-password (password, text containing new or confirm in
\* any case), current-password (any other password), email or tel; with or
\* without an id; and the patched tag is what the file holds.
C5_Autocomplete ==
  op = "final" =>
    \A t \in TagsOf(tags) :
      NeedsAutocomplete(t.text) =>
        /\ Contains(t.out, <<" ","a","u","t","o","c","o","m","p","l","e","t","e","=","\"">> \o ExpectedAutocomplete(t.text) \o <<"\"">>)
           \/ Contains(t.out, <<"a","u","t","o","c","o","m","p","l","e","t","e","=","\"">> \o ExpectedAutocomplete(t.text) \o <<"\""," ">>)
        /\ Cardinality(Occurrences(t.out, <<"a","u","t","o","c","o","m","p","l","e","t","e","=">>)) = 1
        /\ Len(t.out) > Len(t.text)
        /\ Contains(disk, t.out)

\* A run of final_comprehensive_fix that gave new-password to a tag without
\* an id and email to a tag with an id
C5_Witness ==
  /\ op = "final"
  /\ \E t \in TagsOf(tags) :
       /\ ~HasAttr(t.text, <<"i","d">>)
       /\ Contains(t.text, <<"c","o","n","f","i","r","m","P","a","s","s","w","o","r","d">>)
       /\ Contains(t.out, <<"a","u","t","o","c","o","m","p","l","e","t","e","=","\"","n","e","w","-","p","a","s","s","w","o","r","d","\"">>)
  /\ \E t \in TagsOf(tags) :
       /\ HasAttr(t.text, <<"i","d">>)
       /\ NeedsAutocomplete(t.text)
       /\ Contains(t.out, <<"a","u","t","o","c","o","m","p","l","e","t","e","=","\"","e","m","a","i","l","\"">>)

\* The number of tags the last run changed
ChangedCount(seq) == Cardinality({k \in 1..Len(seq) : seq[k].out # seq[k].text})

\* C7: a patcher writes the file exactly when it changed at least one tag
\* and was not run with --dry-run; a run that does not write leaves the
\* content on disk as it was; the count a --dry-run returns is the count the
\* real run returns on the same content.
C7_WriteGuard ==
  [][op' \in PatcherOps =>
       /\ ret' = ChangedCount(tags')
       /\ wrote' <=> (ret' > 0 /\ op' # "batch_dry")
       /\ ~wrote' => disk' = disk
       /\ op' = "batch_dry" => ret' = batch_fix_file(disk, FALSE).count]_vars

\* A --dry-run that found tags to fix and wrote nothing
C7_Witness == op = "batch_dry" /\ ret > 0 /\ ~wrote /\ ChangedCount(tags) = ret

\* C6: in each of the four scripts that loop over files, an exception raised
\* while one file is read or written does not end the script: it is reported
\* for that file and the loop goes on to the next file and to the summary.
C6_FailureIsolation ==
  run.script \in DriverScripts =>
    /\ ~run.crashed
    /\ \A k \in 1..run.pos :
         run.files[k].kind = "unreadable" => k \in run.reported

\* C8: what fix_file has rewritten holds no console call, and a second
\* fix_file on it returns False, writes nothing and leaves the content, with
\* its one logger import, as it is.
C8_ConsoleIdempotent ==
  [][/\ (op' = "console" /\ ret' = 1) => ~has_console_call(disk')
     /\ (op = "console" /\ ret = 1 /\ op' = "console") =>
          (ret' = 0 /\ ~wrote' /\ disk' = disk)]_vars

\* A second fix_file, on a file that the first one has rewritten and given
\* its logger import
C8_Witness ==
  /\ op = "console"
  /\ ret = 0
  /\ ~wrote
  /\ Contains(disk, <<"l","o","g","g","e","r",".","i","n","f","o","(">>)
  /\ Cardinality(Occurrences(disk, LoggerImport)) = 1

\* The number of calls of the method m on the object obj in the text
CallCount(content, obj, m) ==
  Cardinality(Occurrences(content, obj \o <<".">> \o m \o <<"(">>))

\* The calls of the output are those of the input, console.log counted as
\* logger.info and every other console method as the logger method of its name
CallsRewritten(content, new) ==
  /\ ~has_console_call(new)
  /\ \A m \in {<<"d","e","b","u","g">>, <<"e","r","r","o","r">>, <<"w","a","r","n">>} :
       CallCount(new, <<"l","o","g","g","e","r">>, m)
         = CallCount(content, <<"l","o","g","g","e","r">>, m) + CallCount(content, <<"c","o","n","s","o","l","e">>, m)
  /\ CallCount(new, <<"l","o","g","g","e","r">>, <<"i","n","f","o">>)
       = CallCount(content, <<"l","o","g","g","e","r">>, <<"i","n","f","o">>) + CallCount(content, <<"c","o","n","s","o","l","e">>, <<"i","n","f","o">>)
           + CallCount(content, <<"c","o","n","s","o","l","e">>, <<"l","o","g">>)

\* out is lines with every call rewritten and, unless the logger import was
\* there, the logger import inserted as the line of 0-based index p
ConsoleResult(content, new, lines, out, p) ==
  /\ CallsRewritten(content, new)
  /\ IF has_logger_import(content)
     THEN out = [k \in 1..Len(lines) |-> replace_console_statements(lines[k])]
     ELSE out = [k \in 1..(Len(lines) + 1) |->
                   IF k <= p THEN replace_console_statements(lines[k])
                   ELSE IF k = p + 1 THEN LoggerImport
                   ELSE replace_console_statements(lines[k - 1])]

\* The 0-based index of the line after the last line that starts with
\* 'import ', 0 if there is none
AfterLastImport(lines) ==
  MaxOf({i \in 1..Len(lines) : StartsWith(lines[i], <<"i","m","p","o","r","t"," ">>)} \cup {0})

\* The same, a line counting when it starts with 'import ' after its
\* leading whitespace
AfterLastIndentedImport(lines) ==
  MaxOf({i \in 1..Len(lines) : StartsWith(Strip(lines[i]), <<"i","m","p","o","r","t"," ">>)} \cup {0})

\* C9 as stated: the logger import is put right after the last line that
\* starts with 'import ' (first when there is none), every call is rewritten
\* and the rest of the text is unchanged; no import is inserted when the
\* logger import is there.
C9_AfterLastImportLine ==
  [][(op' = "console" /\ ret' = 1) =>
       ConsoleResult(disk, disk', Split(disk, "\n"), Split(disk', "\n"),
                     AfterLastImport(Split(disk, "\n")))]_vars

\* C9 amended: the same, the last import line being the last line that
\* starts with 'import ' once its leading whitespace is ignored.
C9_AfterLastIndentedImportLine ==
  [][(op' = "console" /\ ret' = 1) =>
       ConsoleResult(disk, disk', Split(disk, "\n"), Split(disk', "\n"),
                     AfterLastIndentedImport(Split(disk, "\n")))]_vars

\* A rewritten file whose logger import follows an indented import line
C9_Witness ==
  /\ op = "console"
  /\ ret = 1
  /\ wrote
  /\ Contains(disk, <<" "," ","i","m","p","o","r","t"," ","b",";","\n">> \o LoggerImport)
  /\ Cardinality(Occurrences(disk, LoggerImport)) = 1
  /\ Contains(disk, <<"l","o","g","g","e","r",".","w","a","r","n","(">>)

\* Lowercase, no two hyphens in a row, no hyphen first or last
NormalForm(id) ==
  /\ id = Lower(id)
  /\ ~Contains(id, <<"-","-">>)
  /\ id = <<>> \/ (id[1] # "-" /\ id[Len(id)] # "-")

\* C11: every id synthesized by batch_fix_inputs and by comprehensive_fix is
\* lowercase, has no two hyphens in a row and no hyphen at either end; the
\* id of comprehensive_fix has at most 50 characters.
C11_IdNormalForm ==
  op \in {"batch", "batch_dry", "comprehensive"} =>
    \A t \in Patched(tags) :
      /\ NormalForm(t.id)
      /\ op = "comprehensive" => Len(t.id) <= 50

\* The file-derived prefix of an id: the parent directory when it is in the
\* context list, else the file name without its suffix and without '+'
\* unless that is page, layout or index
FilePrefix(parent_dir, name) ==
  IF parent_dir \in ContextDirs THEN <<parent_dir>>
  ELSE IF name \notin GenericNames THEN <<name>>
  ELSE <<>>

\* The id generate_smart_id is to give the tag when the file context is prefix
IdWithPrefix(input_tag, line_num, prefix) ==
  smart_final_id(
    smart_id_parts(input_tag,
      InputType(input_tag),
      SearchQuoted(input_tag, <<"p","l","a","c","e","h","o","l","d","e","r">>, FALSE),
      Strip(GroupOr(SearchBind(input_tag, {<<"b","i","n","d",":","v","a","l","u","e">>, <<"b","i","n","d",":","c","h","e","c","k","e","d">>}), <<>>)),
      GroupOr(SearchQuoted(input_tag, <<"c","l","a","s","s">>, FALSE), <<>>),
      prefix),
    InputType(input_tag), line_num)

\* C16: the id of comprehensive_fix starts with the parent directory when
\* that is blog, courses, products, videos or boards, else with the name of
\* the file ('+' removed) unless that name is page, layout or index, in
\* which case the id has no file-derived prefix.
C16_FilePrefix ==
  op = "comprehensive" =>
    \A t \in Patched(tags) :
      t.id = IdWithPrefix(t.text, t.start,
               FilePrefix(PathParentName(path), Replace(PathStem(path), <<"+">>, <<>>)))

\* C12: once comprehensive_fix and then final_comprehensive_fix have
\* processed the file, enhanced_scan.check_input_violations finds no
\* violation in it: every input that is not hidden has an id and a name, and
\* every password, email and tel input an autocomplete attribute.
C12_PipelineClean == op = "scan" => ret = 0

\* The number of lines the loop of the script op iterates over
LineCount(content, script) ==
  IF script = "find" THEN Len(readlines(content)) ELSE Len(Split(content, "\n"))

\* C13: every scan loop ends on every file: the lines at which its outer
\* iterations begin are lines of the file and strictly increase; and a tag
\* without a closing '>' is taken to extend to the last line of the file.
C13_LoopsEnd ==
  [][op' # "init" =>
       /\ \A j \in 1..Len(visited') : visited'[j] \in 1..LineCount(disk, op')
       /\ \A j \in 1..(Len(visited') - 1) : visited'[j] < visited'[j + 1]
       /\ \A t \in TagsOf(tags') :
            /\ t.start \in TagsOf(visited')
            /\ t.start <= t.end
            /\ t.end <= LineCount(disk, op')
            /\ ~Contains(t.text, <<">">>) => t.end = LineCount(disk, op')]_vars

\* A patched tag of several lines that the end of the file closes
C13_Witness ==
  /\ op = "comprehensive"
  /\ \E t \in Patched(tags) :
       /\ ~Contains(t.text, <<">">>)
       /\ t.start < t.end
       /\ t.end = Len(Split(disk, "\n"))

\* out is text with something spliced in at one place
SplicedInto(text, out) ==
  /\ Len(out) > Len(text)
  /\ \E p \in 0..Len(text) :
       /\ SubSeq(out, 1, p) = SubSeq(text, 1, p)
       /\ SubSeq(out, Len(out) - (Len(text) - p) + 1, Len(out))
            = SubSeq(text, p + 1, Len(text))

\* new is old but for the lines of the patched tags of seq, which hold the
\* patched text of their tag
LinesPreserved(old, new, seq) ==
  /\ Len(new) = Len(old)
  /\ \A k \in 1..Len(old) :
       (\A t \in Patched(seq) : k \notin t.start..t.end) => new[k] = old[k]
  /\ \A t \in Patched(seq) :
       /\ SplicedInto(t.text, t.out)
       /\ Join(SubSeq(old, t.start, t.end), <<"\n">>) = t.text
       /\ Join(SubSeq(new, t.start, t.end), <<"\n">>) = t.out

\* C14: the file a patcher writes has the lines of the file it read, in
\* their places, but for the attributes spliced into the patched tags; the
\* lines of a tag of several lines that needed no fix are among them.
C14_ContentPreserved ==
  [][(op' \in WritingOps /\ wrote') =>
       LinesPreserved(Split(disk, "\n"), Split(disk', "\n"), tags')]_vars

\* C15: a tag that batch_fix_inputs counts as fixed has, in its patched
\* text, an id and a name attribute for the detector of the script
\* (\bid\s*= and \bname\s*=), whatever follows the '<input' marker.
C15_FixedIsDetected ==
  op \in {"batch", "batch_dry"} =>
    \A t \in Patched(tags) : HasAttr(t.out, <<"i","d">>) /\ HasAttr(t.out, <<"n","a","m","e">>)

\* The tag has an attribute whose whole name is word: the word follows
\* whitespace and is followed by '='
WholeAttr(tag, word) ==
  \E i \in Occurrences(tag, word) :
    /\ i > 1
    /\ tag[i - 1] \in Whitespace
    /\ EqAt(tag, SkipWs(tag, i + Len(word)))

\* The tag is one the scanner is to report, attributes counted by whole name
ToReport(tag) ==
  /\ ~Contains(tag, <<"h","i","d","d","e","n">>)
  /\ \/ ~WholeAttr(tag, <<"i","d">>)
     \/ ~WholeAttr(tag, <<"n","a","m","e">>)
     \/ InputType(tag) \in ScanTypes /\ ~WholeAttr(tag, <<"a","u","t","o","c","o","m","p","l","e","t","e">>)

\* C17: only an attribute whose whole name is id, name or autocomplete
\* counts as that attribute: comprehensive_fix patches every tag (not hidden,
\* its marker followed by whitespace) that has no attribute named id and none
\* named name, and enhanced_scan reports every tag that lacks one of them,
\* whatever data-id, data-name or aria-autocomplete attribute the tag has.
C17_WholeToken ==
  /\ op = "comprehensive" =>
       \A t \in TagsOf(tags) :
         ( /\ ~Contains(t.text, <<"h","i","d","d","e","n">>)
           /\ ~WholeAttr(t.text, <<"i","d">>)
           /\ ~WholeAttr(t.text, <<"n","a","m","e">>)
           /\ InputWsEnd(t.text) >= 0 ) => t.out # t.text
  /\ op = "scan" =>
       ret = Cardinality({k \in 1..Len(tags) : ToReport(tags[k].text)})

\* A tag for which the synthesizers have nothing but the type and the line:
\* no bound expression, no placeholder, no search/filter/select keyword
FallbackTag(tag) ==
  /\ ~SearchBind(tag, {<<"b","i","n","d",":","v","a","l","u","e">>, <<"b","i","n","d",":","c","h","e","c","k","e","d">>}).ok
  /\ ~SearchQuoted(tag, <<"p","l","a","c","e","h","o","l","d","e","r">>, FALSE).ok
  /\ \A kw \in {<<"s","e","a","r","c","h">>, <<"f","i","l","t","e","r">>, <<"s","e","l","e","c","t">>} : ~Contains(Lower(tag), kw)

\* C10: the id synthesized for such a tag ends with the line the tag starts
\* on (after the type for comprehensive_fix), so two such tags of one file
\* get different ids.
C10_FallbackId ==
  op \in {"batch", "batch_dry", "comprehensive"} =>
    /\ \A t \in Patched(tags) :
         FallbackTag(t.text) =>
           /\ EndsWith(t.id, <<"-">> \o Str(t.start))
           /\ op = "comprehensive" =>
                EndsWith(t.id, Lower(InputType(t.text)) \o <<"-">> \o Str(t.start))
    /\ \A t1, t2 \in Patched(tags) :
         (FallbackTag(t1.text) /\ FallbackTag(t2.text) /\ t1.start # t2.start)
           => t1.id # t2.id

=============================================================================
